---- MODULE Spec2Model ----
(***************************************************************************)
(* Model of the two go-oauth example programs:                             *)
(*   - examples/twitter/main.go : a web server doing the three-legged      *)
(*     OAuth dance with an in-memory credential store (secrets), and       *)
(*   - the Plurk command line client (unnamed/part_000).                   *)
(* Token and secret strings are modelled as small positive integers; 0 is  *)
(* the empty string "".  The remote OAuth service is an external           *)
(* collaborator: each call to it either fails or returns a credential pair *)
(* chosen by the service.                                                  *)
(***************************************************************************)
EXTENDS Integers, FiniteSets, Sequences, TLC

\* ---- bounds -------------------------------------------------------------
NumTokens == 2
NumSecrets == 2
NumProcs == 2

Tokens == 1..NumTokens
Secrets == 1..NumSecrets
Procs == 1..NumProcs

\* a nil *oauth.Credentials
Nil == [Token |-> -1, Secret |-> -1]
Cred(t, s) == [Token |-> t, Secret |-> s]
Creds == {Cred(t, s) : t \in Tokens, s \in Secrets}

\* value of r.FormValue("oauth_token"): "" (0) when the parameter is missing
FormTokens == 0..NumTokens
\* the auth cookie as sent by a client: absent, or any string
NoCookie == -1
CookieValues == {NoCookie} \cup Tokens

\* outcome of a call to the remote service: an error or a credential pair
RemoteErr == [Token |-> -2, Secret |-> -2]
RemoteResults == {RemoteErr} \cup Creds

\* ---- the credential store (twitter/main.go 49-74) ------------------------
\* every map from a set of tokens to secrets
Stores == UNION {[D -> Secrets] : D \in SUBSET Tokens}
EmptyStore == [t \in {} |-> 0]

\* variant: a token already present keeps its secret
putCredentials_keepFirst(s, cred) ==
    [t \in (DOMAIN s) \cup {cred.Token} |->
        IF t \in DOMAIN s THEN s[t] ELSE cred.Secret]

putCredentials(s, cred) ==
    [t \in (DOMAIN s) \cup {cred.Token} |->
        IF t = cred.Token THEN cred.Secret ELSE s[t]]

\* variant: the credentials returned carry the token in place of the secret
getCredentials_tokenAsSecret(s, token) ==
    IF token \in DOMAIN s THEN Cred(token, token) ELSE Nil

getCredentials(s, token) ==
    IF token \in DOMAIN s THEN Cred(token, s[token]) ELSE Nil

\* variant: the whole map is emptied
deleteCredentials_all(s, token) == [t \in {} |-> 0]

\* variant: nothing is removed
deleteCredentials_noop(s, token) == s

deleteCredentials(s, token) ==
    [t \in (DOMAIN s) \ {token} |-> s[t]]

\* AuthorizationURL(tempCred, nil): the client's authorization endpoint
\* parameterised by the temporary token
AuthorizationURL(endpoint, tempCred) == <<endpoint, tempCred.Token>>

VARIABLES
    secrets,     \* the map secrets: token -> secret
    cookie,      \* the browser's "auth" cookie (NoCookie when not set)
    resp,        \* per goroutine, the response its handler has written, with
                 \* what the handler did on the way (NoResp before it returns)
    kind,        \* history: how each stored entry got there: "temp" (put by
                 \* serveSignin/serveAuthorize), "access" (put by
                 \* serveOAuthCallback) or "none" (no entry)
    hist,        \* history per token: "never" stored by a begin, "issued" by
                 \* a begin, "taken" from the store by a callback since,
                 \* "consumed" by a callback that then succeeded
    history,     \* whether kind and hist are kept in this run (they record
                 \* the past and steer nothing)
    program,     \* which of the two programs runs: "twitter" or "plurk"
    \* -- the Plurk command line client (unnamed/part_000) --
    cliPc,       \* position of main
    plurkOAuth,  \* the PlurkCredentials read from the configuration file
    cfgFile,     \* the configuration file's AccessToken/AccessSecret
    accessToken, \* main's accessToken (Nil: nil pointer)
    authorized,  \* main's authorized
    err,         \* main's err after GetAccessToken (TRUE: non-nil)
    handshake,   \* what the remote service answered to GetAccessToken's
                 \* requests (Nil: the request was not made)
    apiCall,     \* the data request main issued, with its outcome
    wrote,       \* whether main has called ioutil.WriteFile on the
                 \* configuration file
    \* -- the request handlers of the server (goroutines) --
    pc,          \* where each handler goroutine stands
    handler,     \* the handler it runs
    ltoken,      \* its request's oauth_token or auth cookie
    lcred,       \* its local tempCred (begin, callback) or cred (authHandler)
    ltokenCred,  \* its local tokenCred (callback)
    lpath,       \* its request's URL path (authHandler)
    secretsMutex,\* the goroutines between secretsMutex.Lock and Unlock
    serial,      \* history: the store calls applied in the order of their Lock
    issued,      \* history: per token the secret that a begin of this run has
                 \* stored for it, while no other store call has written or
                 \* removed the token's entry since (0 otherwise)
    started      \* number of requests accepted so far

srvVars == <<secrets, cookie, resp, kind, hist>>
cliVars == <<cliPc, plurkOAuth, cfgFile, accessToken, authorized, err, handshake,
            apiCall, wrote>>
concVars == <<pc, handler, ltoken, lcred, ltokenCred, lpath, secretsMutex, serial,
             issued, started>>
vars == <<srvVars, history, program, cliVars, concVars>>

\* ---- the signed API client (twitter/main.go 155-182, part_000 103-126) ---
\* what the transport answers to one HTTP call: no response at all (the call
\* returns an error), or a response with its status and its body.  A body is
\* delivered whole.
Statuses == {200, 500}
Bodies == {"{not json", "{\"id\":\"1\"}", "[{\"id\":\"1\"}]"}
TransportErr == [status |-> 0, body |-> ""]
ApiAnswers == {TransportErr} \cup [status : Statuses, body : Bodies]

\* an error value, by what it carries: its cause, and the response status and
\* body it reports (0 and "" when it reports none)
Err(type, status, body) == [type |-> type, status |-> status, body |-> body]
NoErr == Err("none", 0, "")

\* a decoded JSON value, by its shape and content
NoData == [shape |-> "none", id |-> ""]

\* json.NewDecoder(body).Decode(data), data pointing to a value of type
\* []map[string]interface{} (target "list") or map[string]interface{} ("map")
Decode(body, target) ==
    CASE body = "{\"id\":\"1\"}" /\ target = "map" ->
             [err |-> NoErr, data |-> [shape |-> "map", id |-> "1"]]
      [] body = "[{\"id\":\"1\"}]" /\ target = "list" ->
             [err |-> NoErr, data |-> [shape |-> "list", id |-> "1"]]
      [] OTHER -> [err |-> Err("decode", 0, ""), data |-> NoData]

\* decodeResponse(resp, data)
decodeResponse(res, target) ==
    IF res.status # 200
    THEN [err |-> Err("status", res.status, res.body), data |-> NoData]
    ELSE Decode(res.body, target)

\* the result of a data request: the number of HTTP calls made, the answer of
\* the transport, the error returned and the data left in *data
ApiResult(calls, res, r) ==
    [calls |-> calls, answer |-> res, err |-> r.err, data |-> r.data]
NoApi == ApiResult(0, TransportErr, [err |-> NoErr, data |-> NoData])

\* apiGet(cred, urlStr, form, data): one oauthClient.Get, then decodeResponse
apiGet(res, target) ==
    IF res = TransportErr
    THEN ApiResult(1, res, [err |-> Err("transport", 0, ""), data |-> NoData])
    ELSE ApiResult(1, res, decodeResponse(res, target))

\* apiPost(cred, urlStr, form, data): one oauthClient.Post, then decodeResponse
apiPost(res, target) ==
    IF res = TransportErr
    THEN ApiResult(1, res, [err |-> Err("transport", 0, ""), data |-> NoData])
    ELSE ApiResult(1, res, decodeResponse(res, target))

\* callAPI_(token, _url, opt) of the Plurk client: one http.PostForm; the
\* bytes of the body are returned as they are, a non-200 status gives an
\* error made of the body's text only
callAPI_(res) ==
    IF res = TransportErr
    THEN [calls |-> 1, answer |-> res, err |-> Err("transport", 0, ""), body |-> ""]
    ELSE IF res.status # 200
    THEN [calls |-> 1, answer |-> res, err |-> Err("text", 0, res.body), body |-> ""]
    ELSE [calls |-> 1, answer |-> res, err |-> NoErr, body |-> res.body]

\* Set-Cookie of a response: none sent, or the new value (NoCookie: expired)
KeepCookie == -3

\* a response, with what the handler did on the way:
\*   error     the text given to http.Error, up to the err.Error() appended
\*   token     the request's oauth_token (callback) or auth cookie (authHandler,
\*             logout)
\*   cred      the credentials the handler resolved from the store
\*   exchanged whether oauthClient.RequestToken was called
\*   remote    what the remote service answered (Nil: it was not called)
\*   setCookie the Set-Cookie header, location the redirect target
\*   called    whether authHandler invoked the wrapped handler
\*   path      (authHandler) the request's URL path
\*   view      the template the wrapped handler executed ("none": no template)
\*   api       the data request the wrapped handler made through apiGet/apiPost
Response(h, st, msg, tok, c, ex, rem, sc, loc, cl) ==
    [handler |-> h, status |-> st, error |-> msg, token |-> tok, cred |-> c,
     exchanged |-> ex, remote |-> rem, setCookie |-> sc, location |-> loc,
     called |-> cl, path |-> "", view |-> "none", api |-> NoApi]

\* the value of a history variable after a step that would make it new
Kept(old, new) == IF history THEN new ELSE old

NoResp == Response("none", 0, "", NoCookie, Nil, FALSE, Nil, KeepCookie, <<>>, FALSE)

\* the AccessToken/AccessSecret of a configuration: 0 is "" (not yet obtained)
Configs == [AccessToken : 0..NumTokens, AccessSecret : 0..NumSecrets]
NoConfig == [AccessToken |-> 0, AccessSecret |-> 0]
\* a configuration file that is empty or ends in the middle of its JSON
\* document (what a write that failed has left): json.Unmarshal rejects it
Truncated == [AccessToken |-> -1, AccessSecret |-> -1]
\* ioutil.WriteFile is OpenFile(O_WRONLY|O_CREATE|O_TRUNC), Write, Close: it
\* succeeds, or fails in the open (the file is as it was), in Write (the open
\* has emptied the file, part of the data may have got in) or in Close (the
\* data has been written)
WriteOutcomes == {"ok", "openFails", "writeFails", "closeFails"}
NoHandshake == [temporary |-> Nil, token |-> Nil]
NoCall == [issued |-> FALSE, token |-> Nil,
           result |-> [calls |-> 0, answer |-> TransportErr, err |-> NoErr, body |-> ""]]

SrvInit ==
    /\ secrets = EmptyStore
    /\ cookie = NoCookie
    /\ resp = [p \in Procs |-> NoResp]
    /\ kind = [t \in Tokens |-> "none"]
    /\ hist = [t \in Tokens |-> "never"]

CliInit ==
    /\ cliPc = "start"
    /\ plurkOAuth = NoConfig
    /\ accessToken = Nil
    /\ authorized = FALSE
    /\ err = FALSE
    /\ handshake = NoHandshake
    /\ apiCall = NoCall
    /\ wrote = FALSE

ConcIdle ==
    /\ pc = [p \in Procs |-> "idle"]
    /\ handler = [p \in Procs |-> "none"]
    /\ ltoken = [p \in Procs |-> NoCookie]
    /\ lcred = [p \in Procs |-> Nil]
    /\ ltokenCred = [p \in Procs |-> Nil]
    /\ lpath = [p \in Procs |-> ""]
    /\ secretsMutex = {}
    /\ serial = EmptyStore
    /\ issued = [t \in Tokens |-> 0]
    /\ started = 0

Programs ==
    /\ program \in {"twitter", "plurk"}
    /\ SrvInit
    /\ CliInit
    /\ ConcIdle
    /\ cfgFile \in IF program = "plurk" THEN Configs \cup {Truncated} ELSE {NoConfig}

Init == Programs /\ history = FALSE

\* the same programs, with the history of every token recorded
HistInit == Programs /\ history = TRUE

\* ---- the routes (twitter/main.go 255-258) ---------------------------------
Routes == {"/", "/timeline", "/messages", "/follow"}

\* variant: every handler is registered as optional
optional_all(route) == TRUE

optional(route) == route = "/"

\* the URL paths of requests; http.ServeMux hands a path to the handler
\* registered for it, and every other path to the one registered for "/"
Paths == Routes \cup {"/other"}
Mux(path) == IF path \in Routes THEN path ELSE "/"

\* what a wrapped handler wrote: status, error text, template, data request
Wrote(st, msg, view, api) == [status |-> st, error |-> msg, view |-> view, api |-> api]

\* ---- the wrapped handlers (twitter/main.go 192-241) -----------------------
serveHome(path, cred) ==
    IF path # "/"
    THEN Wrote(404, "404 page not found", "none", NoApi)
    ELSE IF cred = Nil
    THEN Wrote(200, "", "homeLoggedOut", NoApi)
    ELSE Wrote(200, "", "home", NoApi)

serveTimeline(cred, res) ==
    LET r == apiGet(res, "list") IN
    IF r.err # NoErr
    THEN Wrote(500, "Error getting timeline, ", "none", r)
    ELSE Wrote(200, "", "timeline", r)

serveMessages(cred, res) ==
    LET r == apiGet(res, "list") IN
    IF r.err # NoErr
    THEN Wrote(500, "Error getting timeline, ", "none", r)
    ELSE Wrote(200, "", "messages", r)

serveFollow(cred, res) ==
    LET r == apiPost(res, "map") IN
    IF r.err # NoErr
    THEN Wrote(500, "Error following, ", "none", r)
    ELSE Wrote(200, "", "follow", r)

\* ---- the server's handlers (twitter/main.go 76-153, 192-241) --------------
\* net/http runs every request in its own goroutine.  A handler is a sequence
\* of steps; the steps of different goroutines interleave.  Each call of
\* putCredentials, getCredentials or deleteCredentials is two steps: the Lock
\* of secretsMutex, then the body with the deferred Unlock.  A handler's
\* locals are lcred (tempCred, or cred in authHandler), ltokenCred
\* (tokenCred), ltoken (the oauth_token or the auth cookie of the request) and
\* lpath (r.URL.Path).
MaxRequests == 3

seqVars == <<history, program, cliVars>>

\* secretsMutex.Lock() returns only when no goroutine holds the mutex
MutexFree_unguarded == TRUE
MutexFree == secretsMutex = {}

\* the map is accessed by goroutine p while another one is inside Lock/Unlock:
\* a data race on a Go map, whose outcome is not defined
Raced(p) == secretsMutex # {p}
StoreAfter(p, result) == IF Raced(p) THEN Stores ELSE {result}
LookupResult(p, result) ==
    IF Raced(p) THEN {Nil} \cup {Cred(ltoken[p], x) : x \in Secrets} ELSE {result}

\* the authorization endpoint of a begin handler's client:
\* signinOAuthClient (.../oauth/authenticate) or oauthClient (.../oauth/authorize)
Endpoint(h) == IF h = "signin" THEN "authenticate" ELSE "authorize"

\* the handler returns: its response is written, its locals are gone
Return(p, response) ==
    /\ resp' = [resp EXCEPT ![p] = response]
    /\ pc' = [pc EXCEPT ![p] = "done"]
    /\ ltoken' = [ltoken EXCEPT ![p] = NoCookie]
    /\ lcred' = [lcred EXCEPT ![p] = Nil]
    /\ ltokenCred' = [ltokenCred EXCEPT ![p] = Nil]
    /\ lpath' = [lpath EXCEPT ![p] = ""]

\* a request is dispatched to handler h in a goroutine of its own; the
\* goroutine of a request served before has ended
Accept(p, h) ==
    /\ program = "twitter"
    /\ pc[p] \in {"idle", "done"}
    /\ started < MaxRequests
    /\ started' = started + 1
    /\ handler' = [handler EXCEPT ![p] = h]

\* variant: the return after http.Error is missing
StartSignin_noReturn(p, tempCred) ==
    /\ Accept(p, "signin")
    /\ resp' = [resp EXCEPT ![p] = NoResp]
    /\ lcred' = [lcred EXCEPT ![p] = tempCred]
    /\ pc' = [pc EXCEPT ![p] = "put"]
    /\ UNCHANGED <<secrets, cookie, kind, hist, ltoken, ltokenCred, lpath,
                   secretsMutex, serial, issued, seqVars>>

\* serveSignin up to putCredentials(tempCred); tempCred is the answer of
\* signinOAuthClient.RequestTemporaryCredentials (RemoteErr: err != nil)
StartSignin(p, tempCred) ==
    /\ Accept(p, "signin")
    /\ resp' = [resp EXCEPT ![p] = NoResp]
    /\ lcred' = [lcred EXCEPT ![p] = tempCred]
    /\ pc' = [pc EXCEPT ![p] = IF tempCred = RemoteErr THEN "error" ELSE "put"]
    /\ UNCHANGED <<secrets, cookie, kind, hist, ltoken, ltokenCred, lpath,
                   secretsMutex, serial, issued, seqVars>>

\* variant: putCredentials(tempCred) is missing
StartAuthorize_noPut(p, tempCred) ==
    /\ Accept(p, "authorize")
    /\ resp' = [resp EXCEPT ![p] = NoResp]
    /\ lcred' = [lcred EXCEPT ![p] = tempCred]
    /\ pc' = [pc EXCEPT ![p] = IF tempCred = RemoteErr THEN "error" ELSE "respond"]
    /\ UNCHANGED <<secrets, cookie, kind, hist, ltoken, ltokenCred, lpath,
                   secretsMutex, serial, issued, seqVars>>

\* serveAuthorize up to putCredentials(tempCred); tempCred is the answer of
\* oauthClient.RequestTemporaryCredentials
StartAuthorize(p, tempCred) ==
    /\ Accept(p, "authorize")
    /\ resp' = [resp EXCEPT ![p] = NoResp]
    /\ lcred' = [lcred EXCEPT ![p] = tempCred]
    /\ pc' = [pc EXCEPT ![p] = IF tempCred = RemoteErr THEN "error" ELSE "put"]
    /\ UNCHANGED <<secrets, cookie, kind, hist, ltoken, ltokenCred, lpath,
                   secretsMutex, serial, issued, seqVars>>

\* serveOAuthCallback up to getCredentials(r.FormValue("oauth_token"))
StartCallback(p, oauth_token) ==
    /\ Accept(p, "callback")
    /\ resp' = [resp EXCEPT ![p] = NoResp]
    /\ ltoken' = [ltoken EXCEPT ![p] = oauth_token]
    /\ pc' = [pc EXCEPT ![p] = "get"]
    /\ UNCHANGED <<secrets, cookie, kind, hist, lcred, ltokenCred, lpath,
                   secretsMutex, serial, issued, seqVars>>

\* authHandler.ServeHTTP up to getCredentials(c.Value); c is the auth cookie
\* of the request (NoCookie: r.Cookie returns nil, the store is not
\* consulted).  A client sends whatever cookie it likes, the browser's own
\* one included.
StartServeHTTP(p, path, c) ==
    /\ Accept(p, Mux(path))
    /\ resp' = [resp EXCEPT ![p] = NoResp]
    /\ lpath' = [lpath EXCEPT ![p] = path]
    /\ ltoken' = [ltoken EXCEPT ![p] = c]
    /\ pc' = [pc EXCEPT ![p] = IF c = NoCookie THEN "respond" ELSE "get"]
    /\ UNCHANGED <<secrets, cookie, kind, hist, lcred, ltokenCred,
                   secretsMutex, serial, issued, seqVars>>

\* serveLogout: the auth cookie is expired and the browser sent to "/"; the
\* store is not touched.  The response records the cookie the browser held.
serveLogout(p) ==
    /\ program = "twitter"
    /\ pc[p] \in {"idle", "done"}
    /\ started < MaxRequests
    /\ started' = started + 1
    /\ handler' = [handler EXCEPT ![p] = "logout"]
    /\ cookie' = NoCookie
    /\ Return(p, Response("logout", 302, "", cookie, Nil, FALSE, Nil, NoCookie,
                          <<"/">>, FALSE))
    /\ UNCHANGED <<secrets, kind, hist, secretsMutex, serial, issued, seqVars>>

\* the credentials that the putCredentials call of goroutine p stores
PutArg(p) == IF handler[p] = "callback" THEN ltokenCred[p] ELSE lcred[p]

\* the store call goroutine p is about to make, applied to store s
Applied(p, s) ==
    CASE pc[p] \in {"put", "put_locked"} -> putCredentials(s, PutArg(p))
      [] pc[p] \in {"delete", "delete_locked"} -> deleteCredentials(s, lcred[p].Token)
      [] OTHER -> s

\* secretsMutex.Lock() of the three store functions
Lock(p) ==
    /\ pc[p] \in {"put", "get", "delete"}
    /\ MutexFree
    /\ secretsMutex' = secretsMutex \cup {p}
    /\ pc' = [pc EXCEPT ![p] = CASE pc[p] = "put" -> "put_locked"
                                 [] pc[p] = "get" -> "get_locked"
                                 [] pc[p] = "delete" -> "delete_locked"]
    /\ serial' = Applied(p, serial)
    /\ UNCHANGED <<secrets, cookie, resp, kind, hist, handler, ltoken, lcred,
                   ltokenCred, lpath, issued, started, seqVars>>

\* getCredentials: body and Unlock; then the caller's test of the result
GetBody(p) ==
    /\ pc[p] = "get_locked"
    /\ secretsMutex' = secretsMutex \ {p}
    /\ \E got \in LookupResult(p, getCredentials(secrets, ltoken[p])) :
          /\ lcred' = [lcred EXCEPT ![p] = got]
          /\ pc' = [pc EXCEPT ![p] =
                       IF handler[p] = "callback"
                       THEN (IF got = Nil THEN "error" ELSE "delete")
                       ELSE "respond"]
    /\ UNCHANGED <<secrets, cookie, resp, kind, hist, handler, ltoken, ltokenCred,
                   lpath, serial, issued, started, seqVars>>

\* deleteCredentials(tempCred.Token): body and Unlock
DeleteBody(p) ==
    LET token == lcred[p].Token IN
    /\ pc[p] = "delete_locked"
    /\ secretsMutex' = secretsMutex \ {p}
    /\ secrets' \in StoreAfter(p, deleteCredentials(secrets, token))
    /\ issued' = [issued EXCEPT ![token] = 0]
    /\ kind' = Kept(kind, [kind EXCEPT ![token] = "none"])
    /\ hist' = Kept(hist, IF kind[token] = "temp"
                          THEN [hist EXCEPT ![token] = "taken"]
                          ELSE hist)
    /\ pc' = [pc EXCEPT ![p] = "exchange"]
    /\ UNCHANGED <<cookie, resp, handler, ltoken, lcred, ltokenCred, lpath, serial,
                   started, seqVars>>

\* oauthClient.RequestToken(http.DefaultClient, tempCred, verifier); tokenCred
\* is its answer (RemoteErr: err != nil)
Exchange(p, tokenCred) ==
    /\ pc[p] = "exchange"
    /\ ltokenCred' = [ltokenCred EXCEPT ![p] = tokenCred]
    /\ pc' = [pc EXCEPT ![p] = IF tokenCred = RemoteErr THEN "error" ELSE "put"]
    /\ UNCHANGED <<secrets, cookie, resp, kind, hist, handler, ltoken, lcred, lpath,
                   secretsMutex, serial, issued, started, seqVars>>

\* putCredentials: body and Unlock
PutBody(p) ==
    LET cred == PutArg(p)
        begin == handler[p] \in {"signin", "authorize"}
    IN
    /\ pc[p] = "put_locked"
    /\ secretsMutex' = secretsMutex \ {p}
    /\ secrets' \in StoreAfter(p, putCredentials(secrets, cred))
    /\ issued' = [issued EXCEPT ![cred.Token] = IF begin THEN cred.Secret ELSE 0]
    /\ kind' = Kept(kind, [kind EXCEPT ![cred.Token] =
                              IF begin THEN "temp" ELSE "access"])
    /\ hist' = Kept(hist,
                    IF begin THEN [hist EXCEPT ![cred.Token] = "issued"]
                    ELSE IF ltoken[p] \in Tokens /\ hist[ltoken[p]] = "taken"
                    THEN [hist EXCEPT ![ltoken[p]] = "consumed"]
                    ELSE hist)
    /\ pc' = [pc EXCEPT ![p] = "respond"]
    /\ UNCHANGED <<cookie, resp, handler, ltoken, lcred, ltokenCred, lpath, serial,
                   started, seqVars>>

\* what serveSignin, serveAuthorize or serveOAuthCallback answers at the point
\* goroutine p has reached: http.Error, or the redirect
Answer(p) ==
    IF handler[p] \in {"signin", "authorize"}
    THEN IF pc[p] = "error"
         THEN Response(handler[p], 500, "Error getting temp cred, ", NoCookie, Nil,
                       FALSE, lcred[p], KeepCookie, <<>>, FALSE)
         ELSE Response(handler[p], 302, "", NoCookie, Nil, FALSE, lcred[p],
                       KeepCookie, AuthorizationURL(Endpoint(handler[p]), lcred[p]),
                       FALSE)
    ELSE IF pc[p] = "error" /\ lcred[p] = Nil
         THEN Response("callback", 500, "Unknown oauth_token.", ltoken[p], Nil,
                       FALSE, Nil, KeepCookie, <<>>, FALSE)
    ELSE IF pc[p] = "error"
         THEN Response("callback", 500, "Error getting request token, ", ltoken[p],
                       lcred[p], TRUE, ltokenCred[p], KeepCookie, <<>>, FALSE)
         ELSE Response("callback", 302, "", ltoken[p], lcred[p], TRUE,
                       ltokenCred[p], ltokenCred[p].Token, <<"/">>, FALSE)

\* the end of serveSignin, serveAuthorize and serveOAuthCallback: http.Error
\* and return, or (callback) http.SetCookie, and http.Redirect
Respond(p) ==
    /\ pc[p] \in {"respond", "error"}
    /\ handler[p] \in {"signin", "authorize", "callback"}
    /\ cookie' = IF Answer(p).setCookie = KeepCookie THEN cookie
                 ELSE Answer(p).setCookie
    /\ Return(p, Answer(p))
    /\ UNCHANGED <<secrets, kind, hist, handler, secretsMutex, serial, issued,
                   started, seqVars>>

\* authHandler.ServeHTTP from the test of cred to its end: 403, or the wrapped
\* handler runs with cred; res is what the transport answers if the wrapped
\* handler makes its data request
ServeHTTP(p, res) ==
    LET route == handler[p]
        cred == lcred[p]
        w == CASE route = "/" -> serveHome(lpath[p], cred)
               [] route = "/timeline" -> serveTimeline(cred, res)
               [] route = "/messages" -> serveMessages(cred, res)
               [] route = "/follow" -> serveFollow(cred, res)
    IN
    /\ pc[p] = "respond"
    /\ handler[p] \in Routes
    /\ IF cred = Nil /\ ~optional(route)
       THEN Return(p, [Response(route, 403, "Not logged in.", ltoken[p], cred,
                                FALSE, Nil, KeepCookie, <<>>, FALSE)
                          EXCEPT !.path = lpath[p]])
       ELSE Return(p, [Response(route, w.status, w.error, ltoken[p], cred, FALSE,
                                Nil, KeepCookie, <<>>, TRUE)
                          EXCEPT !.path = lpath[p], !.view = w.view, !.api = w.api])
    /\ UNCHANGED <<secrets, cookie, kind, hist, handler, secretsMutex, serial,
                   issued, started, seqVars>>

\* the steps of the server
ConcNext ==
    \/ \E p \in Procs, r \in RemoteResults : StartSignin(p, r)
    \/ \E p \in Procs, r \in RemoteResults : StartAuthorize(p, r)
    \/ \E p \in Procs, t \in FormTokens : StartCallback(p, t)
    \/ \E p \in Procs, path \in Paths, c \in CookieValues : StartServeHTTP(p, path, c)
    \/ \E p \in Procs : serveLogout(p)
    \/ \E p \in Procs : Lock(p)
    \/ \E p \in Procs : GetBody(p)
    \/ \E p \in Procs : DeleteBody(p)
    \/ \E p \in Procs, r \in RemoteResults : Exchange(p, r)
    \/ \E p \in Procs : PutBody(p)
    \/ \E p \in Procs : Respond(p)
    \/ \E p \in Procs, res \in ApiAnswers : ServeHTTP(p, res)

\* ---- the Plurk client (unnamed/part_000) --------------------------------
\* ReadCredentials: the file is read (ok: ioutil.ReadFile succeeds) and
\* decoded, or main stops (log.Fatalf)
ReadCredentials(ok) ==
    /\ program = "plurk"
    /\ cliPc = "start"
    /\ IF ok /\ cfgFile \in Configs
       THEN /\ plurkOAuth' = cfgFile
            /\ cliPc' = "read"
       ELSE /\ cliPc' = "fatal"
            /\ UNCHANGED plurkOAuth
    /\ UNCHANGED <<srvVars, concVars, history, program, cfgFile, accessToken, authorized, err,
                   handshake, apiCall, wrote>>

\* variant: the stored access token and secret are not looked at
GetAccessToken_alwaysHandshake(requestToken, accessTok) ==
    /\ program = "plurk"
    /\ cliPc = "read"
    /\ IF requestToken = RemoteErr
       THEN /\ accessToken' = Nil
            /\ authorized' = FALSE
            /\ err' = TRUE
            /\ cliPc' = "gotToken"
            /\ handshake' = [temporary |-> requestToken, token |-> Nil]
            /\ UNCHANGED plurkOAuth
       ELSE IF accessTok = RemoteErr
       THEN /\ cliPc' = "fatal"
            /\ handshake' = [temporary |-> requestToken, token |-> accessTok]
            /\ UNCHANGED <<plurkOAuth, accessToken, authorized, err>>
       ELSE /\ accessToken' = accessTok
            /\ plurkOAuth' = [AccessToken |-> accessTok.Token,
                              AccessSecret |-> accessTok.Secret]
            /\ authorized' = TRUE
            /\ err' = FALSE
            /\ cliPc' = "gotToken"
            /\ handshake' = [temporary |-> requestToken, token |-> accessTok]
    /\ UNCHANGED <<srvVars, concVars, history, program, cfgFile, apiCall, wrote>>

\* main's call of GetAccessToken(plurkOAuth).  The consumer key and secret it
\* copies into oauthClient are configuration that no step here reads; they
\* are not part of the state.  requestToken is the answer of
\* RequestTemporaryCredentials and accessTok the answer of RequestToken in
\* doAuth, each used only when the call is made.  doAuth never returns an
\* error: a failed exchange ends the process (log.Fatal).
GetAccessToken(requestToken, accessTok) ==
    /\ program = "plurk"
    /\ cliPc = "read"
    /\ IF plurkOAuth.AccessToken # 0 /\ plurkOAuth.AccessSecret # 0
       THEN /\ accessToken' = Cred(plurkOAuth.AccessToken, plurkOAuth.AccessSecret)
            /\ authorized' = FALSE
            /\ err' = FALSE
            /\ cliPc' = "gotToken"
            /\ UNCHANGED <<plurkOAuth, handshake>>
       ELSE IF requestToken = RemoteErr
       THEN /\ accessToken' = Nil
            /\ authorized' = FALSE
            /\ err' = TRUE
            /\ cliPc' = "gotToken"
            /\ handshake' = [temporary |-> requestToken, token |-> Nil]
            /\ UNCHANGED plurkOAuth
       ELSE IF accessTok = RemoteErr
       THEN /\ cliPc' = "fatal"
            /\ handshake' = [temporary |-> requestToken, token |-> accessTok]
            /\ UNCHANGED <<plurkOAuth, accessToken, authorized, err>>
       ELSE /\ accessToken' = accessTok
            /\ plurkOAuth' = [AccessToken |-> accessTok.Token,
                              AccessSecret |-> accessTok.Secret]
            /\ authorized' = TRUE
            /\ err' = FALSE
            /\ cliPc' = "gotToken"
            /\ handshake' = [temporary |-> requestToken, token |-> accessTok]
    /\ UNCHANGED <<srvVars, concVars, history, program, cfgFile, apiCall, wrote>>

\* main 136-145: the configuration is written back when authorized; outcome
\* is how ioutil.WriteFile ends, and main stops (log.Fatal) when it fails
WriteCredentials(outcome) ==
    /\ program = "plurk"
    /\ cliPc = "gotToken"
    /\ IF authorized
       THEN /\ wrote' = TRUE
            /\ cfgFile' = CASE outcome = "openFails" -> cfgFile
                             [] outcome = "writeFails" -> Truncated
                             [] OTHER -> plurkOAuth
            /\ cliPc' = IF outcome = "ok" THEN "call" ELSE "fatal"
       ELSE /\ cliPc' = "call"
            /\ UNCHANGED <<cfgFile, wrote>>
    /\ UNCHANGED <<srvVars, concVars, history, program, plurkOAuth, accessToken, authorized, err,
                   handshake, apiCall>>

\* main 146-150: CallAPI(accessToken, ...), then print or log.Fatalf; res is
\* what the transport answers to the request
CallAPI(res) ==
    LET r == callAPI_(res) IN
    /\ program = "plurk"
    /\ cliPc = "call"
    /\ apiCall' = [issued |-> TRUE, token |-> accessToken, result |-> r]
    /\ cliPc' = IF r.err = NoErr THEN "done" ELSE "fatal"
    /\ UNCHANGED <<srvVars, concVars, history, program, plurkOAuth, cfgFile, accessToken, authorized,
                   err, handshake, wrote>>

Next ==
    \/ ConcNext
    \/ \E ok \in BOOLEAN : ReadCredentials(ok)
    \/ \E r \in RemoteResults, a \in RemoteResults : GetAccessToken(r, a)
    \/ \E outcome \in WriteOutcomes : WriteCredentials(outcome)
    \/ \E res \in ApiAnswers : CallAPI(res)

Spec == Init /\ [][Next]_vars

\* the same behaviours with kind and hist recorded
HistSpec == HistInit /\ [][Next]_vars

\* the server alone, its goroutines starting on any store earlier requests
\* may have left
ConcInit ==
    /\ program = "twitter"
    /\ history = FALSE
    /\ secrets \in Stores
    /\ serial = secrets
    /\ issued = [t \in Tokens |-> 0]
    /\ cookie = NoCookie
    /\ resp = [p \in Procs |-> NoResp]
    /\ kind = [t \in Tokens |-> "none"]
    /\ hist = [t \in Tokens |-> "never"]
    /\ CliInit
    /\ cfgFile = NoConfig
    /\ pc = [p \in Procs |-> "idle"]
    /\ handler = [p \in Procs |-> "none"]
    /\ ltoken = [p \in Procs |-> NoCookie]
    /\ lcred = [p \in Procs |-> Nil]
    /\ ltokenCred = [p \in Procs |-> Nil]
    /\ lpath = [p \in Procs |-> ""]
    /\ secretsMutex = {}
    /\ started = 0

ConcSpec == ConcInit /\ [][ConcNext]_vars

\* ==== properties of the server's flow =======================================

\* goroutine p makes the step that leaves pc = at
Body(p, at) == pc[p] = at /\ pc'[p] # at
\* goroutine p takes a step
Steps(p) == pc'[p] # pc[p] \/ resp'[p] # resp[p] \/ handler'[p] # handler[p]
\* a request is dispatched to handler h in goroutine p
Accepted(p, h) ==
    /\ pc[p] \in {"idle", "done"}
    /\ pc'[p] \notin {"idle", "done"}
    /\ handler'[p] = h
\* a handler returns in goroutine p: p reaches the end of its handler, or the
\* step is a /logout, which is served in one step, and p has its response
Returns(p) ==
    /\ pc'[p] = "done"
    /\ \/ pc[p] # "done"
       \/ /\ started' # started
          /\ pc' = pc
          /\ resp'[p].handler = "logout"
\* goroutine p has answered a request for handler h
Answered(p, h) == pc[p] = "done" /\ resp[p].handler = h
\* the step is the lookup of /callback in goroutine p
Lookup(p) == handler[p] = "callback" /\ Body(p, "get_locked")
\* the lookup finds nothing: the callback is on its way to http.Error
\* "Unknown oauth_token." without having changed anything
Rejected(p) == lcred'[p] = Nil /\ pc'[p] = "error" /\ secrets' = secrets
BeginHandlers == {"signin", "authorize"}

\* C1 (as claimed): once /callback has succeeded for a temporary token t, a
\* later /callback with the same t, with no begin issuing t again in between,
\* is rejected with "Unknown oauth_token." and makes no token exchange.
C1_OneTimeUse ==
    [][\A p \in Procs, t \in Tokens :
         (Lookup(p) /\ ltoken[p] = t /\ hist[t] = "consumed") => Rejected(p)]_vars

\* C2 (as claimed): /callback with a token that no begin ever stored as a
\* temporary credential is rejected: no exchange, store unchanged, no cookie.
C2_NeverIssuedRejected ==
    [][\A p \in Procs :
         (Lookup(p) /\ (ltoken[p] = 0 \/ hist[ltoken[p]] = "never"))
            => (Rejected(p) /\ cookie' = cookie)]_vars

\* C3 (as claimed): after /logout of a session whose auth cookie is the access
\* token A, A no longer resolves in the store (and the cookie is gone).
C3_LogoutDiscards ==
    [][\A p \in Procs :
         (/\ Returns(p)
          /\ resp'[p].handler = "logout"
          /\ cookie \in Tokens
          /\ kind[cookie] = "access")
            => (/\ cookie' = NoCookie
                /\ getCredentials(secrets', cookie) = Nil)]_vars

\* /callback in goroutine p returns after its token exchange failed upstream
ExchangeFailed(p) ==
    /\ Returns(p)
    /\ resp'[p].handler = "callback"
    /\ resp'[p].remote = RemoteErr
\* the error is surfaced, the step stores nothing and sets no cookie
FailureSurfaced(p) ==
    /\ resp'[p].status = 500
    /\ resp'[p].error = "Error getting request token, "
    /\ resp'[p].setCookie = KeepCookie
    /\ cookie' = cookie
    /\ secrets' = secrets

\* C4 (as claimed): when the exchange fails the error is surfaced, nothing is
\* stored, no cookie is set, and the temporary credential is still held.
C4_FailedExchangeKeepsTemp ==
    [][\A p \in Procs :
         ExchangeFailed(p)
            => (/\ FailureSurfaced(p)
                /\ getCredentials(secrets', resp'[p].token) = resp'[p].cred)]_vars

\* C4 (amended): when the exchange fails the error is surfaced, nothing is
\* stored and no cookie is set, but the temporary credential is not kept: the
\* callback has removed the entry of its token before the exchange, and
\* neither the failing exchange nor the error response puts anything back.
\* When the begin and this callback are the only requests, the token resolves
\* to nothing once the callback has answered.
C4_FailedExchangeDropsTemp ==
    /\ [](\A p \in Procs :
            (/\ started = 2
             /\ Answered(p, "callback")
             /\ resp[p].remote = RemoteErr)
               => getCredentials(secrets, resp[p].token) = Nil)
    /\ [][\A p \in Procs :
            /\ (handler[p] = "callback" /\ Body(p, "delete_locked"))
                  => (/\ lcred[p].Token \notin DOMAIN secrets'
                      /\ \A u \in Tokens \ {lcred[p].Token} :
                            getCredentials(secrets', u) = getCredentials(secrets, u))
            /\ (Body(p, "exchange") /\ ltokenCred'[p] = RemoteErr)
                  => (pc'[p] = "error" /\ secrets' = secrets /\ cookie' = cookie)
            /\ ExchangeFailed(p)
                  => (/\ FailureSurfaced(p)
                      /\ resp'[p].exchanged
                      /\ resp'[p].cred.Token = resp'[p].token)]_vars

\* a callback has answered the failure of its exchange; its token is gone,
\* other credentials are still stored
C4_Witness ==
    \E p \in Procs :
        /\ Answered(p, "callback")
        /\ resp[p].remote = RemoteErr
        /\ resp[p].cred \in Creds
        /\ getCredentials(secrets, resp[p].token) = Nil
        /\ secrets # EmptyStore

\* C5: a begin (/signin or /authorize) followed by /callback with the token it
\* issued, the signer succeeding, ends authorized.  When these two are the
\* only requests, then once the callback has answered, the store resolves the
\* signer's access token to the signer's secret, the auth cookie is that
\* token, the callback has exchanged the credential the begin was answered
\* with, and the temporary credential of T is no longer held (T resolves to
\* nothing, or to the access credential when the signer reused the token
\* string).  Among any requests, the callback's putCredentials makes the
\* access token resolve to the signer's secret and its response sets the
\* cookie to that token.
C5_BeginThenComplete ==
    /\ [](\A p \in Procs :
            (/\ started = 2
             /\ Answered(p, "callback")
             /\ resp[p].exchanged
             /\ resp[p].remote # RemoteErr)
               => (/\ resp[p].status = 302
                   /\ resp[p].remote \in Creds
                   /\ resp[p].cred.Token = resp[p].token
                   /\ \A q \in Procs :
                         (pc[q] = "done" /\ resp[q].handler \in BeginHandlers)
                            => resp[p].cred = resp[q].remote
                   /\ getCredentials(secrets, resp[p].remote.Token) = resp[p].remote
                   /\ cookie = resp[p].remote.Token
                   /\ resp[p].setCookie = resp[p].remote.Token
                   /\ getCredentials(secrets, resp[p].token) \in {Nil, resp[p].remote}))
    /\ [][\A p \in Procs :
            /\ (handler[p] = "callback" /\ Body(p, "put_locked"))
                  => getCredentials(secrets', ltokenCred[p].Token) = ltokenCred[p]
            /\ (Returns(p) /\ resp'[p].handler = "callback" /\ resp'[p].status = 302)
                  => (/\ cookie' = ltokenCred[p].Token
                      /\ resp'[p].remote = ltokenCred[p]
                      /\ resp'[p].cred = lcred[p])]_vars

\* of two requests, a begin and the /callback for its token, the callback has
\* answered; the session holds the access credential, whose token differs
\* from the temporary one
C5_Witness ==
    \E p \in Procs :
        /\ started = 2
        /\ Answered(p, "callback")
        /\ resp[p].status = 302
        /\ resp[p].cred \in Creds
        /\ resp[p].remote.Token # resp[p].token
        /\ cookie = resp[p].remote.Token
        /\ getCredentials(secrets, cookie) = resp[p].remote
        /\ getCredentials(secrets, resp[p].token) = Nil

\* C6 (as claimed): authHandler resolves credentials for a request only when
\* its auth cookie carries an access token stored by a successful /callback.
C6_SessionAssociation ==
    [][\A p \in Procs :
         (handler[p] \in Routes /\ Body(p, "get_locked") /\ lcred'[p] # Nil)
            => (ltoken[p] \in Tokens /\ kind[ltoken[p]] = "access")]_vars

\* C7 (as claimed): /callback with a token that is not a pending temporary
\* credential, an access token held in the store included, is rejected, makes
\* no exchange and leaves the store as it was.
C7_NonPendingRejected ==
    [][\A p \in Procs :
         (Lookup(p) /\ (ltoken[p] = 0 \/ kind[ltoken[p]] # "temp")) => Rejected(p)]_vars

\* C10: when the temporary-credential request is rejected upstream, /signin
\* and /authorize go straight to their error response, which carries the
\* error and no redirect; no step of the handler changes the store or the
\* cookie.  GetAccessToken returns (nil, false, err) and leaves AccessToken
\* and AccessSecret as they were.
C10_BeginFailure ==
    [][/\ \A p \in Procs, h \in BeginHandlers :
             /\ (Accepted(p, h) /\ lcred'[p] = RemoteErr)
                   => (pc'[p] = "error" /\ secrets' = secrets /\ cookie' = cookie)
             /\ (handler[p] = h /\ lcred[p] = RemoteErr /\ Steps(p))
                   => (/\ Returns(p)
                       /\ resp'[p].handler = h
                       /\ resp'[p].status = 500
                       /\ resp'[p].error = "Error getting temp cred, "
                       /\ resp'[p].location = <<>>
                       /\ secrets' = secrets
                       /\ cookie' = cookie)
       /\ (cliPc = "read" /\ handshake'.temporary = RemoteErr)
          => (/\ err'
              /\ cliPc' = "gotToken"
              /\ accessToken' = Nil
              /\ ~authorized'
              /\ plurkOAuth' = plurkOAuth
              /\ cfgFile' = cfgFile)]_vars

\* a begin of the server has answered its failure while the store held
\* credentials
C10_WitnessTwitter ==
    \E p \in Procs :
        /\ pc[p] = "done"
        /\ resp[p].handler \in BeginHandlers
        /\ resp[p].remote = RemoteErr
        /\ resp[p].status = 500
        /\ secrets # EmptyStore
\* GetAccessToken returned the upstream error
C10_WitnessPlurk ==
    /\ cliPc = "gotToken"
    /\ handshake.temporary = RemoteErr
    /\ err
C10_Witness == C10_WitnessTwitter \/ C10_WitnessPlurk

\* ==== properties of authHandler and of the begin entry points ==============

RequiredRoutes == {"/timeline", "/messages", "/follow"}

\* authHandler looks the identity up as the code does: without a cookie the
\* store is not consulted and cred stays nil; with one, cred is what the store
\* resolves the cookie's value to, nil when it resolves to nothing
IdentityLookup ==
    \A p \in Procs :
        /\ (handler[p] \in Routes /\ Body(p, "get_locked"))
              => lcred'[p] = getCredentials(secrets, ltoken[p])
        /\ (\E route \in Routes : Accepted(p, route) /\ ltoken'[p] = NoCookie)
              => (lcred'[p] = Nil /\ pc'[p] = "respond")

\* a handler registered as requiring identity is invoked only with
\* credentials; without them the request is answered 403 and nothing is called
RequiredGated(r) ==
    r.handler \in RequiredRoutes
        => /\ r.called => r.cred # Nil
           /\ r.cred = Nil => (/\ ~r.called
                               /\ r.status = 403
                               /\ r.error = "Not logged in."
                               /\ r.api.calls = 0
                               /\ r.view = "none")

\* C11 (as claimed): a handler requiring identity is never invoked with absent
\* credentials (403 instead); the optional handler (/) is always invoked, with
\* nil credentials when no identity resolves, and then renders the logged-out
\* view.
C11_Gating ==
    \A p \in Procs :
        pc[p] = "done"
           => /\ RequiredGated(resp[p])
              /\ resp[p].handler = "/"
                    => /\ resp[p].called
                       /\ resp[p].cred = Nil
                             => (resp[p].status = 200 /\ resp[p].view = "homeLoggedOut")

\* C11 (amended): as claimed, except that the optional handler renders the
\* logged-out view only for the path "/" itself; for every other path that the
\* route "/" receives it is invoked too, and answers 404 without any view.
C11_GatingOnHomePath ==
    /\ [](\A p \in Procs :
            pc[p] = "done"
               => /\ RequiredGated(resp[p])
                  /\ resp[p].handler = "/"
                        => /\ resp[p].called
                           /\ (resp[p].cred = Nil /\ resp[p].path = "/")
                                 => (/\ resp[p].status = 200
                                     /\ resp[p].view = "homeLoggedOut")
                           /\ resp[p].path # "/"
                                 => (resp[p].status = 404 /\ resp[p].view = "none"))
    /\ [][IdentityLookup]_vars

\* a request for a handler requiring identity came with a cookie that the
\* store, holding other credentials, does not resolve, and was answered 403
C11_WitnessRequired ==
    \E p \in Procs :
        /\ pc[p] = "done"
        /\ resp[p].handler \in RequiredRoutes
        /\ resp[p].token \in Tokens
        /\ resp[p].cred = Nil
        /\ resp[p].status = 403
        /\ secrets # EmptyStore
\* the home page was served logged-out to a request whose cookie the store,
\* holding other credentials, does not resolve
C11_WitnessOptional ==
    \E p \in Procs :
        /\ Answered(p, "/")
        /\ resp[p].path = "/"
        /\ resp[p].token \in Tokens
        /\ resp[p].called
        /\ resp[p].cred = Nil
        /\ resp[p].view = "homeLoggedOut"
        /\ secrets # EmptyStore
C11_Witness == C11_WitnessRequired \/ C11_WitnessOptional

\* what a begin's response shows apart from the entry point that served the
\* request and the authorization endpoint of the redirect
BeginObs(r) ==
    [r EXCEPT !.handler = "begin",
              !.location = IF r.location = <<>> THEN <<>> ELSE <<r.location[2]>>]

\* everything a step leaves behind apart from the names of the handlers
ApartFromHandler ==
    <<secrets, cookie, resp, pc, ltoken, lcred, ltokenCred, lpath, secretsMutex,
      started>>

\* C12: /signin and /authorize are two entries into one state machine.  From
\* every state and for every answer of the temporary-credential endpoint, the
\* first step of one is the first step the other would have taken, apart from
\* the handler's name; from there on both run the same steps: the same
\* putCredentials on the one store, and a response that differs in nothing
\* but the authorization endpoint of the redirect ("authenticate" or
\* "authorize", each with the temporary token); and the lookup of a /callback
\* gets the credential the begin stored, whichever entry stored it.
C12_OneStateMachine ==
    [][\A p \in Procs :
          /\ \A r \in RemoteResults :
                /\ (Accepted(p, "signin") /\ lcred'[p] = r)
                      => \E x \in {ApartFromHandler'} :
                            ENABLED (StartAuthorize(p, r) /\ ApartFromHandler' = x)
                /\ (Accepted(p, "authorize") /\ lcred'[p] = r)
                      => \E x \in {ApartFromHandler'} :
                            ENABLED (StartSignin(p, r) /\ ApartFromHandler' = x)
          /\ (handler[p] \in BeginHandlers /\ Body(p, "put_locked"))
                => secrets' = putCredentials(secrets, lcred[p])
          /\ (Returns(p) /\ resp'[p].handler \in BeginHandlers)
                => (/\ secrets' = secrets
                    /\ cookie' = cookie
                    /\ resp'[p].remote = lcred[p]
                    /\ BeginObs(resp'[p]) =
                          BeginObs(IF lcred[p] = RemoteErr
                                   THEN Response("", 500, "Error getting temp cred, ",
                                                 NoCookie, Nil, FALSE, lcred[p],
                                                 KeepCookie, <<>>, FALSE)
                                   ELSE Response("", 302, "", NoCookie, Nil, FALSE,
                                                 lcred[p], KeepCookie,
                                                 <<"", lcred[p].Token>>, FALSE))
                    /\ resp'[p].status = 302
                          => resp'[p].location =
                                <<IF resp'[p].handler = "signin" THEN "authenticate"
                                  ELSE "authorize",
                                  lcred[p].Token>>)
          /\ (Lookup(p) /\ ltoken[p] \in Tokens /\ issued[ltoken[p]] # 0)
                => lcred'[p] = Cred(ltoken[p], issued[ltoken[p]])]_vars

\* of two requests, an /authorize and the /callback for its token, both have
\* answered, the callback having exchanged the credential the begin stored
C12_Witness ==
    \E p \in Procs, q \in Procs :
        /\ started = 2
        /\ Answered(p, "callback")
        /\ resp[p].status = 302
        /\ Answered(q, "authorize")
        /\ resp[q].status = 302
        /\ resp[p].cred = resp[q].remote

\* ==== properties of the signed API clients ==================================

\* a body that is not JSON
Malformed(body) == body = "{not json"

\* the outcome r of a data request is as the contract has it: one HTTP call;
\* a response with a status other than 200 gives an error carrying that status
\* and that body, and no data; a 200 response with a malformed body gives a
\* decode error
FailureOutcomes(r, nodata) ==
    /\ r.calls = 1
    /\ (r.answer # TransportErr /\ r.answer.status # 200)
          => (/\ r.err.type = "status"
              /\ r.err.status = r.answer.status
              /\ r.err.body = r.answer.body
              /\ nodata)
    /\ (r.answer # TransportErr /\ r.answer.status = 200 /\ Malformed(r.answer.body))
          => r.err.type = "decode"

\* the Twitter client: the data request of /timeline, /messages or /follow
TwitterFailureOutcomes ==
    \A p \in Procs :
        (pc[p] = "done" /\ resp[p].handler \in Routes \ {"/"} /\ resp[p].called)
            => FailureOutcomes(resp[p].api, resp[p].api.data = NoData)

\* the Plurk client: the data request of main
PlurkFailureOutcomes ==
    apiCall.issued => FailureOutcomes(apiCall.result, apiCall.result.body = "")

\* C13 (as claimed): for every data request of either client, a non-200
\* response yields an error with the response's status and exact body and no
\* decoded data, a 200 response with malformed JSON yields a decode error, and
\* exactly one HTTP call is made.
C13_ApiFailureOutcomes == TwitterFailureOutcomes /\ PlurkFailureOutcomes

\* ==== properties of the command line client's configuration ================

\* the step is main's call of GetAccessToken
GetAccessTokenStep == cliPc = "read" /\ cliPc' # "read"
\* the step is main's "if authorized { ... WriteFile ... }"
WriteStep == cliPc = "gotToken" /\ cliPc' # "gotToken"
\* the configuration holds a non-empty access token and access secret
HoldsAccess(cfg) == cfg.AccessToken # 0 /\ cfg.AccessSecret # 0
AsConfig(cred) == [AccessToken |-> cred.Token, AccessSecret |-> cred.Secret]

\* with a non-empty access token and secret in the configuration,
\* GetAccessToken returns exactly them with authorized = false and no error,
\* makes no request to the service and leaves the configuration alone
ReusedAsHeld ==
    (GetAccessTokenStep /\ HoldsAccess(plurkOAuth))
        => (/\ accessToken' = Cred(plurkOAuth.AccessToken, plurkOAuth.AccessSecret)
            /\ ~authorized'
            /\ ~err'
            /\ cliPc' = "gotToken"
            /\ handshake' = NoHandshake
            /\ plurkOAuth' = plurkOAuth)
\* authorized is true exactly when a handshake was run and succeeded
AuthorizedIffHandshake ==
    GetAccessTokenStep
        => (authorized' <=> (/\ ~HoldsAccess(plurkOAuth)
                             /\ handshake'.token \in Creds
                             /\ accessToken' = handshake'.token
                             /\ plurkOAuth' = AsConfig(handshake'.token)))

\* C14 (as claimed): with access token and secret in the configuration,
\* GetAccessToken returns exactly them with authorized = false and runs no
\* handshake, and main does not rewrite the file; the file is rewritten if
\* and only if a first-time authorization succeeded, and then it holds the
\* access token and secret just obtained.
C14_ReuseAndPersist ==
    [][/\ ReusedAsHeld
       /\ AuthorizedIffHandshake
       /\ WriteStep
             => (/\ ~authorized => cfgFile' = cfgFile
                 /\ authorized => cfgFile' = AsConfig(handshake.token))
       /\ ~WriteStep => cfgFile' = cfgFile]_vars

\* C14 (amended): as claimed for the reuse; main calls ioutil.WriteFile if
\* and only if a first-time authorization succeeded, and no other step
\* changes the file.  When the write succeeds the file holds the access token
\* and secret just obtained and main goes on; when it fails main stops, and
\* the file is as it was, or empty or partly written, or holds the new
\* content, depending on where the write failed.
C14_PersistWhenWritten ==
    [][/\ ReusedAsHeld
       /\ AuthorizedIffHandshake
       /\ WriteStep
             => (/\ wrote' <=> authorized
                 /\ ~authorized => (cfgFile' = cfgFile /\ cliPc' = "call")
                 /\ authorized
                       => \/ cliPc' = "call" /\ cfgFile' = AsConfig(handshake.token)
                          \/ /\ cliPc' = "fatal"
                             /\ cfgFile' \in {cfgFile, Truncated,
                                              AsConfig(handshake.token)})
       /\ ~WriteStep => (cfgFile' = cfgFile /\ wrote' = wrote)]_vars

\* main went on to the data request with reused credentials, the file not
\* written
C14_WitnessReuse ==
    /\ cliPc = "call"
    /\ HoldsAccess(cfgFile)
    /\ handshake = NoHandshake
    /\ accessToken = Cred(cfgFile.AccessToken, cfgFile.AccessSecret)
    /\ ~authorized
    /\ ~wrote
\* main went on after a first authorization, the file rewritten with the
\* credentials just obtained
C14_WitnessFirstTime ==
    /\ cliPc = "call"
    /\ authorized
    /\ wrote
    /\ handshake.token \in Creds
    /\ cfgFile = AsConfig(handshake.token)
    /\ accessToken = handshake.token
\* main stopped on a write that failed after the file had been emptied
C14_WitnessFailedWrite ==
    /\ cliPc = "fatal"
    /\ authorized
    /\ wrote
    /\ handshake.token \in Creds
    /\ cfgFile = Truncated
C14_Witness == C14_WitnessReuse \/ C14_WitnessFirstTime \/ C14_WitnessFailedWrite

\* C16 (as claimed): main calls CallAPI only with access credentials that are
\* not absent, and when GetAccessToken returned an error the program stops
\* without issuing a data request.
C16_CallOnlyWithCredentials ==
    /\ apiCall.issued => apiCall.token # Nil
    /\ err => ~apiCall.issued
    /\ (err /\ cliPc # "gotToken") => cliPc = "fatal"

\* ==== properties of the credential store under concurrent handlers =========

\* the token that the store call of goroutine p is about
StoreToken(p) ==
    IF pc[p] \in {"put", "put_locked"} THEN PutArg(p).Token
    ELSE IF pc[p] \in {"get", "get_locked"} THEN ltoken[p]
    ELSE lcred[p].Token

\* C8: read-your-writes.  When putCredentials((T, S)) completes, T resolves to
\* (T, S), whether or not T had a secret before; a getCredentials(T) returns
\* exactly the stored pair (nil when there is none) and changes nothing; and a
\* step that is not the body of a put or delete on T leaves what T resolves to
\* as it was, so the pair stays until a delete(T) or another put on T.
C8_ReadYourWrites ==
    [][/\ \A p \in Procs :
             Body(p, "put_locked")
                => getCredentials(secrets', PutArg(p).Token) = PutArg(p)
       /\ \A p \in Procs :
             Body(p, "get_locked")
                => /\ lcred'[p] = IF ltoken[p] \in DOMAIN secrets
                                  THEN Cred(ltoken[p], secrets[ltoken[p]])
                                  ELSE Nil
                   /\ secrets' = secrets
       /\ \A t \in Tokens :
             (~ \E p \in Procs : /\ Body(p, "put_locked") \/ Body(p, "delete_locked")
                                 /\ StoreToken(p) = t)
                => getCredentials(secrets', t) = getCredentials(secrets, t)]_vars

\* a begin has overwritten the secret of a token that another goroutine had
\* read before, while the store also holds another token
C8_Witness ==
    \E p \in Procs, q \in Procs :
        /\ handler[p] \in BeginHandlers
        /\ pc[p] = "respond"
        /\ getCredentials(secrets, lcred[p].Token) = lcred[p]
        /\ pc[q] = "delete"
        /\ lcred[q].Token = lcred[p].Token
        /\ lcred[q].Secret # lcred[p].Secret
        /\ DOMAIN secrets # {lcred[p].Token}

\* at most one goroutine is inside Lock/Unlock, and the store is what the
\* calls made so far give when applied one after the other in Lock order
C9_Serial ==
    /\ Cardinality(secretsMutex) <= 1
    /\ \A p \in secretsMutex : Applied(p, secrets) = serial
    /\ secretsMutex = {} => secrets = serial

\* a step changes what a token resolves to only as the body of the put or
\* delete that the goroutine holding the mutex makes on that very token
C9_Unrelated ==
    \A t \in Tokens :
        getCredentials(secrets', t) # getCredentials(secrets, t)
            => \E p \in secretsMutex : /\ Body(p, "put_locked") \/ Body(p, "delete_locked")
                                       /\ StoreToken(p) = t

\* C9: under every interleaving of the handlers' store calls, each call runs
\* alone under secretsMutex, the store equals the result of a serial order of
\* the calls, and no call changes the entry of a token it does not name.
C9_AtomicStore == []C9_Serial /\ [][C9_Unrelated]_vars

\* two goroutines are in store calls on distinct tokens: one holds the mutex
\* in putCredentials, the other waits in Lock to delete a stored token
C9_Witness ==
    \E p \in Procs, q \in Procs :
        /\ pc[p] = "put_locked"
        /\ pc[q] = "delete"
        /\ PutArg(p).Token # lcred[q].Token
        /\ lcred[q].Token \in DOMAIN secrets
        /\ secretsMutex = {p}

\* C15 (as claimed): of the /callback requests that run concurrently with the
\* same pending temporary token, at most one gets past the lookup and on to
\* the token exchange; never are two of them both beyond getCredentials,
\* holding the same temporary credential, on their way to RequestToken.
PastLookup(p) ==
    /\ handler[p] = "callback"
    /\ pc[p] \in {"delete", "delete_locked", "exchange"}
C15_OneExchange ==
    \A p \in Procs, q \in Procs :
        (p # q /\ PastLookup(p) /\ PastLookup(q)) => lcred[p] # lcred[q]

\* C17: complete observes the credential that begin stored.  While no other
\* store call writes or removes the entry of T (the other users' begins and
\* completes use other tokens), the lookup of /callback for T returns (T, s)
\* with the very secret s that the begin stored; steps of other goroutines on
\* other tokens leave that entry as it is; and the handler keeps the
\* credential it read until it has passed it to RequestToken.
C17_CompleteObservesBegin ==
    [][/\ \A p \in Procs :
             (Lookup(p) /\ ltoken[p] \in Tokens /\ issued[ltoken[p]] # 0)
                => lcred'[p] = Cred(ltoken[p], issued[ltoken[p]])
       /\ \A p \in Procs :
             (handler[p] = "callback" /\ pc[p] \in {"delete", "delete_locked", "exchange"})
                => (lcred'[p] = lcred[p] /\ lcred[p].Token = ltoken[p])
       /\ \A t \in Tokens :
             (issued[t] # 0 /\ ~ \E p \in Procs :
                                   /\ Body(p, "put_locked") \/ Body(p, "delete_locked")
                                   /\ StoreToken(p) = t)
                => (/\ issued'[t] = issued[t]
                    /\ getCredentials(secrets', t) = Cred(t, issued[t]))]_vars

\* a /callback is about to exchange the credential that a begin of this run
\* stored, after another goroutine has written another token's entry
C17_Witness ==
    \E p \in Procs, q \in Procs :
        /\ handler[p] = "callback"
        /\ pc[p] = "delete"
        /\ issued[ltoken[p]] # 0
        /\ lcred[p] = Cred(ltoken[p], issued[ltoken[p]])
        /\ handler[q] \in BeginHandlers
        /\ pc[q] = "respond"
        /\ lcred[q].Token # ltoken[p]
        /\ getCredentials(secrets, lcred[q].Token) = lcred[q]

\* C18: deleteCredentials(T) removes the entry of T and no other, and leaves
\* the whole store as it is when T has no entry; getCredentials leaves the
\* store as it is, and for a token without entry returns nil, on which the
\* handler goes on normally (the callback rejects, authHandler decides).
C18_StoreFrame ==
    [][\A p \in Procs :
          /\ Body(p, "delete_locked")
                => (/\ DOMAIN secrets' = (DOMAIN secrets) \ {lcred[p].Token}
                    /\ \A u \in DOMAIN secrets' : secrets'[u] = secrets[u]
                    /\ lcred[p].Token \notin DOMAIN secrets => secrets' = secrets)
          /\ Body(p, "get_locked")
                => (/\ secrets' = secrets
                    /\ ltoken[p] \notin DOMAIN secrets
                          => (/\ lcred'[p] = Nil
                              /\ pc'[p] = IF handler[p] = "callback" THEN "error"
                                          ELSE "respond"))]_vars

\* two callbacks have both deleted the same token, the second one finding no
\* entry, while the store holds another token's credentials
C18_Witness ==
    \E p \in Procs, q \in Procs :
        /\ p # q
        /\ pc[p] = "exchange"
        /\ pc[q] = "exchange"
        /\ lcred[p].Token = lcred[q].Token
        /\ started = 2
        /\ secrets # EmptyStore

====
